---- MODULE Spec2Model ----
(***************************************************************************)
(* Model of the asset consolidation pass of omni-parser-obsidian           *)
(* (scripts/asset_deduplicator.py, class AssetDeduplicator).               *)
(*                                                                         *)
(* A run of deduplicate_directory is modelled step by step: the walk of    *)
(* the attachment store hashes one file per step, the duplicate groups and *)
(* the replacement map are built, every note is rewritten in one step per  *)
(* note, and every file of files_to_remove is removed in one step per      *)
(* file.  File names are sequences of characters, so that the sort key     *)
(* (len(name), name) and the regular expression built from a name are      *)
(* computed as the code computes them.  A note is a sequence of reference  *)
(* tokens.                                                                 *)
(***************************************************************************)
EXTENDS Integers, Sequences, FiniteSets, TLC

VARIABLES
    store,             \* attachment store: path -> content id, or NoFile
    notes,             \* corpus: existing note -> sequence of tokens
    pc,                \* position inside deduplicate_directory
    walked,            \* paths the rglob of _hash_all_files has yielded
    hash_map,          \* _hash_all_files: ordered hash -> list of paths
    duplicate_groups,  \* _find_duplicates: list of lists of paths
    replacement_map,   \* _build_replacement_map: ordered dict, <<old, new>>
    visited,           \* notes the rglob of _update_markdown_links has yielded
    updated_files,     \* _update_markdown_links: set of notes written
    rm,                \* _remove_duplicates: files_to_remove and its counters
    result,            \* DeduplicationResult of the current run
    deleted,           \* history: paths unlinked by the current run
    failed_notes,      \* history: notes whose read or write raised
    hash_failed,       \* history: paths whose hashing raised
    rm_failed,         \* history: paths whose stat/unlink raised
    faults,            \* number of I/O failures injected so far
    snap,              \* history: store and notes when the current run began
    prev,              \* history: <<outcome of the first run>>, or NoRun
    roots,             \* which of attachments_dir and notes_dir exist
    \* ContentTransformer._process_images (scripts/transformer.py)
    ipc,               \* position inside _process_images
    imgs,              \* soup.find_all("img"): the references of the document
    html,              \* the document: one element per reference
    ipos,              \* index of the reference the loop is at
    download_external, \* the argument download_external
    attachments,       \* attachments_dir: file name -> data
    image_map,         \* image_map: ordered dict, <<src, name>>
    extracted,         \* the counter extracted
    external,          \* the counter external
    warnings,          \* the list warnings
    write_log,         \* history: every write_bytes, with what was there
    failed_refs        \* history: <<position, "fetch" or "write">> failures

ingestVars == <<ipc, imgs, html, ipos, download_external, attachments,
                image_map, extracted, external, warnings, write_log,
                failed_refs>>

dedupVars == <<store, notes, pc, walked, hash_map, duplicate_groups,
               replacement_map, visited, updated_files, rm, result, deleted,
               failed_notes, hash_failed, rm_failed, faults, snap, prev,
               roots>>

vars == <<store, notes, pc, walked, hash_map, duplicate_groups,
          replacement_map, visited, updated_files, rm, result, deleted,
          failed_notes, hash_failed, rm_failed, faults, snap, prev, roots,
          ingestVars>>

(***************************************************************************)
(* Bounds of the model.                                                    *)
(***************************************************************************)
MaxTokens == 2
MaxFaults == 1

\* img elements of a document
MaxImgs == 2

(***************************************************************************)
(* Characters, names and paths.                                            *)
(***************************************************************************)
CharCode(c) ==
    CASE c = "." -> 46
      [] c = "_" -> 95
      [] c = "G" -> 71
      [] c = "N" -> 78
      [] c = "P" -> 80
      [] c = "a" -> 97
      [] c = "b" -> 98
      [] c = "d" -> 100
      [] c = "e" -> 101
      [] c = "f" -> 102
      [] c = "g" -> 103
      [] c = "i" -> 105
      [] c = "j" -> 106
      [] c = "m" -> 109
      [] c = "n" -> 110
      [] c = "p" -> 112
      [] c = "s" -> 115
      [] c = "t" -> 116
      [] c = "v" -> 118
      [] c = "w" -> 119
      [] c = "x" -> 120

NameA == <<"a", ".", "p", "n", "g">>
NameB == <<"b", ".", "p", "n", "g">>
NameAB == <<"a", "b", ".", "p", "n", "g">>
NearB == <<"b", "_", "p", "n", "g">>

Names == {NameA, NameB, NameAB}

\* The store has a root directory and one subdirectory; b.png exists in both.
CorePaths == {<<"att", NameA>>, <<"att", NameB>>, <<"att", NameAB>>,
              <<"att/sub", NameB>>}

\* b.txt, b.PNG and an entry d.png that is a directory
NameTxt == <<"b", ".", "t", "x", "t">>
NameUpper == <<"b", ".", "P", "N", "G">>
NameDir == <<"d", ".", "p", "n", "g">>

ExtraPaths == {<<"att", NameTxt>>, <<"att", NameUpper>>, <<"att", NameDir>>}

Paths == CorePaths \cup ExtraPaths

PathName(p) == p[2]

NoFile == "NoFile"

\* an entry of the store for which is_file() is false
Directory == "dir"
Contents == {"h1", "h2"}

\* st_size of a file; byte-identical files have the same size.
SizeOf(c) == IF c = "h1" THEN 5000 ELSE 120

Docs == {"n1", "n2"}

\* prev before any run has returned
NoRun == <<>>

IMAGE_EXTENSIONS ==
    { <<".", "p", "n", "g">>, <<".", "j", "p", "g">>,
      <<".", "j", "p", "e", "g">>, <<".", "g", "i", "f">>,
      <<".", "w", "e", "b", "p">>, <<".", "s", "v", "g">>,
      <<".", "b", "m", "p">> }

\* Path.suffix: the name from its last dot on, empty when there is none or
\* when the only dot is the first character.
Suffix(name) ==
    LET dots == {i \in 2..Len(name) : name[i] = "."}
    IN  IF dots = {} THEN <<>>
        ELSE LET last == CHOOSE i \in dots : \A j \in dots : j <= i
             IN  SubSeq(name, last, Len(name))

\* str.lower
LowerChar(c) ==
    CASE c = "G" -> "g"
      [] c = "N" -> "n"
      [] c = "P" -> "p"
      [] OTHER -> c

Lower(name) == [i \in 1..Len(name) |-> LowerChar(name[i])]

(***************************************************************************)
(* Tokens of a note.                                                       *)
(*   embed     ![[name]]                                                   *)
(*   wikilink  [[name]] not preceded by an exclamation mark                *)
(*   image     ![alt](name)                                                *)
(***************************************************************************)
Embed(n) == [kind |-> "embed", alt |-> "", name |-> n]
WikiLink(n) == [kind |-> "wikilink", alt |-> "", name |-> n]
Image(a, n) == [kind |-> "image", alt |-> a, name |-> n]

\* tokens of the notes of a whole run
TokenPool ==
    { Embed(NameB), Embed(NameAB), WikiLink(NameB), Image("alt", NameA) }

RECURSIVE SeqsUpTo(_, _)
SeqsUpTo(S, n) ==
    IF n <= 0 THEN {<<>>}
    ELSE LET shorter == SeqsUpTo(S, n - 1)
         IN  shorter \cup {Append(s, x) : s \in shorter, x \in S}

Range(s) == {s[i] : i \in 1..Len(s)}

(***************************************************************************)
(* The ordered dictionaries of the run.                                    *)
(***************************************************************************)
\* defaultdict(list): hash_map[h].append(p)
HashMapAppend(hm, h, p) ==
    IF \E i \in 1..Len(hm) : hm[i].hash = h
    THEN [i \in 1..Len(hm) |->
            IF hm[i].hash = h
            THEN [hm[i] EXCEPT !.files = Append(@, p)]
            ELSE hm[i]]
    ELSE Append(hm, [hash |-> h, files |-> <<p>>])

\* dict[k] = v: an existing key keeps its position
DictSet(m, k, v) ==
    IF \E i \in 1..Len(m) : m[i][1] = k
    THEN [i \in 1..Len(m) |-> IF m[i][1] = k THEN <<k, v>> ELSE m[i]]
    ELSE Append(m, <<k, v>>)

DictKeys(m) == {m[i][1] : i \in 1..Len(m)}
DictGet(m, k) == m[CHOOSE i \in 1..Len(m) : m[i][1] = k][2]

(***************************************************************************)
(* Pure helpers of AssetDeduplicator.                                      *)
(***************************************************************************)
\* str < str: comparison by code point, a proper prefix is smaller
NameLess(a, b) ==
    \/ /\ Len(a) < Len(b)
       /\ \A i \in 1..Len(a) : a[i] = b[i]
    \/ \E i \in 1..Len(a) :
          /\ i <= Len(b)
          /\ \A j \in 1..(i - 1) : a[j] = b[j]
          /\ CharCode(a[i]) < CharCode(b[i])

\* key=lambda p: (len(p.name), p.name), compared as tuples
KeyLess(p, q) ==
    \/ Len(PathName(p)) < Len(PathName(q))
    \/ /\ Len(PathName(p)) = Len(PathName(q))
       /\ NameLess(PathName(p), PathName(q))

\* one step of a stable sort: x goes after every element not greater than it
SortedInsert(s, x) ==
    LET pos == Cardinality({i \in 1..Len(s) : ~KeyLess(x, s[i])})
    IN  SubSeq(s, 1, pos) \o <<x>> \o SubSeq(s, pos + 1, Len(s))

RECURSIVE SortedFrom(_, _)
SortedFrom(group, n) ==
    IF n = 0 THEN <<>>
    ELSE SortedInsert(SortedFrom(group, n - 1), group[n])

\* a group as found, in discovery order: what a build without the sort uses
SortedGroupNoSort(group) == group

\* sorted(group, key=lambda p: (len(p.name), p.name)); sorted() is stable
SortedGroup(group) == SortedFrom(group, Len(group))

\* _find_duplicates
RECURSIVE FindDuplicatesFrom(_, _)
FindDuplicatesFrom(hm, n) ==
    IF n = 0 THEN <<>>
    ELSE LET rest == FindDuplicatesFrom(hm, n - 1)
         IN  IF Len(hm[n].files) > 1 THEN Append(rest, hm[n].files) ELSE rest

_find_duplicates(hm) == FindDuplicatesFrom(hm, Len(hm))

\* the inner loop of _build_replacement_map over sorted_group[1:]
RECURSIVE MapGroupFrom(_, _, _)
MapGroupFrom(m, sorted_group, n) ==
    IF n <= 1 THEN m
    ELSE DictSet(MapGroupFrom(m, sorted_group, n - 1),
                 PathName(sorted_group[n]), PathName(sorted_group[1]))

RECURSIVE BuildMapFrom(_, _)
BuildMapFrom(groups, n) ==
    IF n = 0 THEN <<>>
    ELSE LET sorted_group == SortedGroup(groups[n])
         IN  MapGroupFrom(BuildMapFrom(groups, n - 1), sorted_group,
                          Len(sorted_group))

_build_replacement_map(groups) == BuildMapFrom(groups, Len(groups))

\* sorted_group[0] of a group
Canonical(group) == SortedGroup(group)[1]

\* The pattern rf'...\({old_name}\)' puts the name into the regular
\* expression unescaped: over this alphabet every character matches itself
\* except the dot, which matches any character.
RegexMatchesName(old_name, target) ==
    /\ Len(old_name) = Len(target)
    /\ \A i \in 1..Len(old_name) :
          old_name[i] = "." \/ old_name[i] = target[i]

\* the replacement with its two arguments exchanged
ReplaceEmbedSwapped(tok, old_name, new_name) ==
    IF tok.kind = "embed" /\ tok.name = new_name
    THEN [tok EXCEPT !.name = old_name]
    ELSE tok

\* content.replace('![[old]]', '![[new]]') on one token
ReplaceEmbed(tok, old_name, new_name) ==
    IF tok.kind = "embed" /\ tok.name = old_name
    THEN [tok EXCEPT !.name = new_name]
    ELSE tok

\* re.sub(r'!\[([^\]]*)\]\(old\)', r'![\1](new)', content) on one token
SubImage(tok, old_name, new_name) ==
    IF tok.kind = "image" /\ RegexMatchesName(old_name, tok.name)
    THEN [tok EXCEPT !.name = new_name]
    ELSE tok

\* the body of the loop over replacement_map.items() for one entry
RewriteEntry(content, old_name, new_name) ==
    [i \in 1..Len(content) |->
        SubImage(ReplaceEmbed(content[i], old_name, new_name),
                 old_name, new_name)]

RECURSIVE RewriteFrom(_, _, _)
RewriteFrom(content, m, n) ==
    IF n = 0 THEN content
    ELSE RewriteEntry(RewriteFrom(content, m, n - 1), m[n][1], m[n][2])

\* the loop over replacement_map.items(), in insertion order
RewriteContent(content, m) == RewriteFrom(content, m, Len(m))

RECURSIVE Flatten(_, _)
Flatten(groups, n) ==
    IF n = 0 THEN <<>> ELSE Flatten(groups, n - 1) \o groups[n]

\* a removal list cut after its first file
FilesToRemoveFirst(groups, m) ==
    LET files == SelectSeq(Flatten(groups, Len(groups)),
                           LAMBDA file : PathName(file) \in DictKeys(m))
    IN  SubSeq(files, 1, 1)

\* files_to_remove of _remove_duplicates
FilesToRemove(groups, m) ==
    SelectSeq(Flatten(groups, Len(groups)),
              LAMBDA file : PathName(file) \in DictKeys(m))

NewResult ==
    [total_files |-> 0, duplicates_found |-> 0, duplicates_removed |-> 0,
     bytes_saved |-> 0, files_updated |-> 0, errors |-> <<>>]

RECURSIVE SumLen(_, _)
SumLen(lists, n) ==
    IF n = 0 THEN 0 ELSE SumLen(lists, n - 1) + Len(lists[n])

(***************************************************************************)
(* Initial states: a store and a corpus before the first run.              *)
(***************************************************************************)
\* Content ids are interchangeable: a.png, when stored, holds "h1".
CoreStores ==
    { s \in [CorePaths -> Contents \cup {NoFile}] : s[<<"att", NameA>>] # "h2" }

Stores ==
    { [p \in Paths |-> IF p \in CorePaths THEN s[p] ELSE NoFile] :
        s \in CoreStores }

\* A corpus of one note, or of two notes the second of which embeds b.png;
\* at most MaxTokens tokens in all.
Corpora ==
    { [d \in {"n1"} |-> t1] : t1 \in SeqsUpTo(TokenPool, MaxTokens) }
    \cup
    { [d \in Docs |-> IF d = "n1" THEN t1 ELSE <<Embed(NameB)>>] :
        t1 \in SeqsUpTo(TokenPool, MaxTokens - 1) }

NoRemoval == [queue |-> <<>>, bytes_saved |-> 0, files_removed |-> 0]

\* no document is being converted
IngestIdle ==
    /\ ipc = "off"
    /\ imgs = <<>>
    /\ html = <<>>
    /\ ipos = 0
    /\ download_external = FALSE
    /\ attachments = <<>>
    /\ image_map = <<>>
    /\ extracted = 0
    /\ external = 0
    /\ warnings = <<>>
    /\ write_log = <<>>
    /\ failed_refs = {}

BothRoots == [store |-> TRUE, notes |-> TRUE]

Init ==
    /\ store \in Stores
    /\ notes \in Corpora
    /\ pc = "idle"
    /\ walked = {}
    /\ hash_map = <<>>
    /\ duplicate_groups = <<>>
    /\ replacement_map = <<>>
    /\ visited = {}
    /\ updated_files = {}
    /\ rm = NoRemoval
    /\ result = NewResult
    /\ deleted = {}
    /\ failed_notes = {}
    /\ hash_failed = {}
    /\ rm_failed = {}
    /\ faults = 0
    /\ snap = [store |-> store, notes |-> notes]
    /\ prev = NoRun
    /\ roots = BothRoots
    /\ IngestIdle

(***************************************************************************)
(* deduplicate_directory, step by step.                                    *)
(***************************************************************************)
\* The call: result = DeduplicationResult().  A second call is made on the
\* store and corpus the first run left.
Start ==
    /\ \/ pc = "idle"
       \/ pc = "done" /\ prev = NoRun
    /\ prev' = IF pc = "done"
               THEN <<[result |-> result,
                       clean |-> hash_failed = {} /\ rm_failed = {}]>>
               ELSE prev
    /\ pc' = "hash"
    /\ result' = NewResult
    /\ walked' = {}
    /\ hash_map' = <<>>
    /\ duplicate_groups' = <<>>
    /\ replacement_map' = <<>>
    /\ visited' = {}
    /\ updated_files' = {}
    /\ rm' = NoRemoval
    /\ deleted' = {}
    /\ failed_notes' = {}
    /\ hash_failed' = {}
    /\ rm_failed' = {}
    /\ snap' = [store |-> store, notes |-> notes]
    /\ UNCHANGED <<store, notes, faults>>
    /\ UNCHANGED <<roots, ingestVars>>

\* the walk with the suffix compared as it is spelled
HashFileNoLower(p) ==
    /\ pc = "hash"
    /\ store[p] # NoFile
    /\ p \notin walked
    /\ walked' = walked \cup {p}
    /\ IF \/ store[p] = Directory
          \/ Suffix(PathName(p)) \notin IMAGE_EXTENSIONS
       THEN UNCHANGED <<hash_map, hash_failed, faults>>
       ELSE \/ /\ hash_map' = HashMapAppend(hash_map, store[p], p)
               /\ UNCHANGED <<hash_failed, faults>>
            \/ /\ faults < MaxFaults
               /\ faults' = faults + 1
               /\ hash_failed' = hash_failed \cup {p}
               /\ UNCHANGED hash_map
    /\ UNCHANGED <<store, notes, pc, duplicate_groups, replacement_map,
                   visited, updated_files, rm, result, deleted, failed_notes,
                   rm_failed, snap, prev>>
    /\ UNCHANGED <<roots, ingestVars>>

\* One iteration of the loop of _hash_all_files: rglob yields a file in an
\* order the file system decides; _hash_file may raise.
HashFile(p) ==
    /\ pc = "hash"
    /\ store[p] # NoFile
    /\ p \notin walked
    /\ walked' = walked \cup {p}
    /\ IF \/ store[p] = Directory
          \/ Lower(Suffix(PathName(p))) \notin IMAGE_EXTENSIONS
       THEN UNCHANGED <<hash_map, hash_failed, faults>>
       ELSE \/ /\ hash_map' = HashMapAppend(hash_map, store[p], p)
               /\ UNCHANGED <<hash_failed, faults>>
            \/ /\ faults < MaxFaults
               /\ faults' = faults + 1
               /\ hash_failed' = hash_failed \cup {p}
               /\ UNCHANGED hash_map
    /\ UNCHANGED <<store, notes, pc, duplicate_groups, replacement_map,
                   visited, updated_files, rm, result, deleted, failed_notes,
                   rm_failed, snap, prev>>
    /\ UNCHANGED <<roots, ingestVars>>

\* Steps 1-3 after the walk: total_files, _find_duplicates, the early
\* return, _build_replacement_map.
FindDuplicates ==
    /\ pc = "hash"
    /\ \A p \in Paths : store[p] # NoFile => p \in walked
    /\ LET groups == _find_duplicates(hash_map)
           found == SumLen(groups, Len(groups)) - Len(groups)
           total == SumLen([i \in 1..Len(hash_map) |-> hash_map[i].files],
                           Len(hash_map))
       IN  /\ duplicate_groups' = groups
           /\ result' = [result EXCEPT !.total_files = total,
                                       !.duplicates_found = found]
           /\ IF groups = <<>>
              THEN /\ pc' = "done"
                   /\ UNCHANGED replacement_map
              ELSE /\ pc' = "rewrite"
                   /\ replacement_map' = _build_replacement_map(groups)
    /\ UNCHANGED <<store, notes, walked, hash_map, visited, updated_files,
                   rm, deleted, failed_notes, hash_failed, rm_failed, faults,
                   snap, prev>>
    /\ UNCHANGED <<roots, ingestVars>>

\* the rewriter with an exception that leaves the loop over the notes
UpdateNoteAbort(d) ==
    /\ pc = "rewrite"
    /\ d \in DOMAIN notes
    /\ d \notin visited
    /\ LET content == RewriteContent(notes[d], replacement_map)
       IN  \/ /\ content # notes[d]
              /\ notes' = [notes EXCEPT ![d] = content]
              /\ updated_files' = updated_files \cup {d}
              /\ visited' = visited \cup {d}
              /\ UNCHANGED <<failed_notes, faults>>
           \/ /\ content = notes[d]
              /\ visited' = visited \cup {d}
              /\ UNCHANGED <<notes, updated_files, failed_notes, faults>>
           \/ /\ faults < MaxFaults
              /\ faults' = faults + 1
              /\ failed_notes' = failed_notes \cup {d}
              /\ visited' = DOMAIN notes
              /\ UNCHANGED <<notes, updated_files>>
    /\ UNCHANGED <<store, pc, walked, hash_map, duplicate_groups,
                   replacement_map, rm, result, deleted, hash_failed,
                   rm_failed, snap, prev>>
    /\ UNCHANGED <<roots, ingestVars>>

\* One iteration of the loop of _update_markdown_links: read, rewrite for
\* every entry of the map, write back when the text changed.  A read or a
\* write that raises is logged and the note is left as it was.
UpdateNote(d) ==
    /\ pc = "rewrite"
    /\ d \in DOMAIN notes
    /\ d \notin visited
    /\ visited' = visited \cup {d}
    /\ LET content == RewriteContent(notes[d], replacement_map)
       IN  \/ /\ content # notes[d]
              /\ notes' = [notes EXCEPT ![d] = content]
              /\ updated_files' = updated_files \cup {d}
              /\ UNCHANGED <<failed_notes, faults>>
           \/ /\ content = notes[d]
              /\ UNCHANGED <<notes, updated_files, failed_notes, faults>>
           \/ /\ faults < MaxFaults
              /\ faults' = faults + 1
              /\ failed_notes' = failed_notes \cup {d}
              /\ UNCHANGED <<notes, updated_files>>
    /\ UNCHANGED <<store, pc, walked, hash_map, duplicate_groups,
                   replacement_map, rm, result, deleted, hash_failed,
                   rm_failed, snap, prev>>
    /\ UNCHANGED <<roots, ingestVars>>

\* The process dies inside md_file.write_text(content): the file was opened
\* for writing, which truncates it, and only a part of the new text, possibly
\* none, has reached it.
CrashInWrite(d) ==
    /\ pc = "rewrite"
    /\ d \in DOMAIN notes
    /\ d \notin visited
    /\ LET content == RewriteContent(notes[d], replacement_map)
       IN  /\ content # notes[d]
           /\ \E written \in 0..(Len(content) - 1) :
                 notes' = [notes EXCEPT ![d] = SubSeq(content, 1, written)]
    /\ pc' = "crashed"
    /\ UNCHANGED <<store, walked, hash_map, duplicate_groups, replacement_map,
                   visited, updated_files, rm, result, deleted, failed_notes,
                   hash_failed, rm_failed, faults, snap, prev>>
    /\ UNCHANGED <<roots, ingestVars>>

\* the removal begun while notes are still to be visited
BeginRemoveEarly ==
    /\ pc = "rewrite"
    /\ result' = [result EXCEPT !.files_updated = Cardinality(updated_files)]
    /\ rm' = [queue |-> FilesToRemove(duplicate_groups, replacement_map),
              bytes_saved |-> 0, files_removed |-> 0]
    /\ pc' = "remove"
    /\ UNCHANGED <<store, notes, walked, hash_map, duplicate_groups,
                   replacement_map, visited, updated_files, deleted,
                   failed_notes, hash_failed, rm_failed, faults, snap, prev>>
    /\ UNCHANGED <<roots, ingestVars>>

\* Step 4 returns, step 5 begins: files_updated, files_to_remove.
BeginRemove ==
    /\ pc = "rewrite"
    /\ DOMAIN notes \subseteq visited
    /\ result' = [result EXCEPT !.files_updated = Cardinality(updated_files)]
    /\ rm' = [queue |-> FilesToRemove(duplicate_groups, replacement_map),
              bytes_saved |-> 0, files_removed |-> 0]
    /\ pc' = "remove"
    /\ UNCHANGED <<store, notes, walked, hash_map, duplicate_groups,
                   replacement_map, visited, updated_files, deleted,
                   failed_notes, hash_failed, rm_failed, faults, snap, prev>>
    /\ UNCHANGED <<roots, ingestVars>>

\* the removal with an exception that leaves the loop over files_to_remove
RemoveFileStops ==
    /\ pc = "remove"
    /\ rm.queue # <<>>
    /\ LET file_path == Head(rm.queue)
       IN  \/ /\ store' = [store EXCEPT ![file_path] = NoFile]
              /\ rm' = [queue |-> Tail(rm.queue),
                        bytes_saved |-> rm.bytes_saved + SizeOf(store[file_path]),
                        files_removed |-> rm.files_removed + 1]
              /\ deleted' = deleted \cup {file_path}
              /\ UNCHANGED <<rm_failed, faults>>
           \/ /\ faults < MaxFaults
              /\ faults' = faults + 1
              /\ rm_failed' = rm_failed \cup {file_path}
              /\ rm' = [rm EXCEPT !.queue = <<>>]
              /\ UNCHANGED <<store, deleted>>
    /\ UNCHANGED <<notes, pc, walked, hash_map, duplicate_groups,
                   replacement_map, visited, updated_files, result,
                   failed_notes, hash_failed, snap, prev>>
    /\ UNCHANGED <<roots, ingestVars>>

\* One iteration of the loop of _remove_duplicates: stat and unlink, or an
\* exception that is logged.
RemoveFile ==
    /\ pc = "remove"
    /\ rm.queue # <<>>
    /\ LET file_path == Head(rm.queue)
       IN  \/ /\ store' = [store EXCEPT ![file_path] = NoFile]
              /\ rm' = [queue |-> Tail(rm.queue),
                        bytes_saved |-> rm.bytes_saved + SizeOf(store[file_path]),
                        files_removed |-> rm.files_removed + 1]
              /\ deleted' = deleted \cup {file_path}
              /\ UNCHANGED <<rm_failed, faults>>
           \/ /\ faults < MaxFaults
              /\ faults' = faults + 1
              /\ rm_failed' = rm_failed \cup {file_path}
              /\ rm' = [rm EXCEPT !.queue = Tail(rm.queue)]
              /\ UNCHANGED <<store, deleted>>
    /\ UNCHANGED <<notes, pc, walked, hash_map, duplicate_groups,
                   replacement_map, visited, updated_files, result,
                   failed_notes, hash_failed, snap, prev>>
    /\ UNCHANGED <<roots, ingestVars>>

\* Step 5 returns: duplicates_removed, bytes_saved, return result.
FinishRun ==
    /\ pc = "remove"
    /\ rm.queue = <<>>
    /\ result' = [result EXCEPT !.duplicates_removed = rm.files_removed,
                                !.bytes_saved = rm.bytes_saved]
    /\ pc' = "done"
    /\ UNCHANGED <<store, notes, walked, hash_map, duplicate_groups,
                   replacement_map, visited, updated_files, rm, deleted,
                   failed_notes, hash_failed, rm_failed, faults, snap, prev>>
    /\ UNCHANGED <<roots, ingestVars>>

Next ==
    \/ Start
    \/ \E p \in Paths : HashFile(p)
    \/ FindDuplicates
    \/ \E d \in Docs : UpdateNote(d)
    \/ \E d \in Docs : CrashInWrite(d)
    \/ BeginRemove
    \/ RemoveFile
    \/ FinishRun

Spec == Init /\ [][Next]_vars

(***************************************************************************)
(* A second specification for the reference rewriter: the flat store of    *)
(* two byte-identical files a.png and b.png, and one note drawn from link  *)
(* tokens that name b.png exactly, nearly, or not at all.                  *)
(***************************************************************************)
LinkPool ==
    { Embed(NameB), Image("alt", NameB), Image("alt", NearB),
      Image("pic", NameA) }

FlatPairStore ==
    [p \in Paths |->
        IF p \in {<<"att", NameA>>, <<"att", NameB>>} THEN "h1" ELSE NoFile]

InitLinks ==
    /\ store = FlatPairStore
    /\ notes \in { [d \in {"n1"} |-> t1] : t1 \in SeqsUpTo(LinkPool, MaxTokens) }
    /\ pc = "idle"
    /\ walked = {}
    /\ hash_map = <<>>
    /\ duplicate_groups = <<>>
    /\ replacement_map = <<>>
    /\ visited = {}
    /\ updated_files = {}
    /\ rm = NoRemoval
    /\ result = NewResult
    /\ deleted = {}
    /\ failed_notes = {}
    /\ hash_failed = {}
    /\ rm_failed = {}
    /\ faults = 0
    /\ snap = [store |-> store, notes |-> notes]
    /\ prev = NoRun
    /\ roots = BothRoots
    /\ IngestIdle

SpecLinks == InitLinks /\ [][Next]_vars

(***************************************************************************)
(* A third specification for the root directories: attachments_dir or      *)
(* notes_dir may be missing when deduplicate_directory is called.  A       *)
(* missing directory holds nothing, and Path.rglob over it yields nothing. *)
(***************************************************************************)
EmptyStore == [p \in Paths |-> NoFile]
EmptyCorpus == [d \in {} |-> <<>>]

InitRoots ==
    /\ roots \in [store : BOOLEAN, notes : BOOLEAN]
    /\ store \in IF roots.store THEN Stores ELSE {EmptyStore}
    /\ notes \in IF roots.notes
                 THEN { [d \in {"n1"} |-> t1] : t1 \in SeqsUpTo(TokenPool, 1) }
                 ELSE {EmptyCorpus}
    /\ pc = "idle"
    /\ walked = {}
    /\ hash_map = <<>>
    /\ duplicate_groups = <<>>
    /\ replacement_map = <<>>
    /\ visited = {}
    /\ updated_files = {}
    /\ rm = NoRemoval
    /\ result = NewResult
    /\ deleted = {}
    /\ failed_notes = {}
    /\ hash_failed = {}
    /\ rm_failed = {}
    /\ faults = 0
    /\ snap = [store |-> store, notes |-> notes]
    /\ prev = NoRun
    /\ IngestIdle

SpecRoots == InitRoots /\ [][Next]_vars

(***************************************************************************)
(* A fourth specification for the indexer: beside a.png and b.png the      *)
(* store may hold b.txt, b.PNG and a directory named d.png.                *)
(***************************************************************************)
IndexStores ==
    { [p \in Paths |->
          IF p = <<"att", NameA>> THEN a
          ELSE IF p = <<"att", NameB>> THEN b
          ELSE IF p = <<"att", NameTxt>> THEN t
          ELSE IF p = <<"att", NameUpper>> THEN u
          ELSE IF p = <<"att", NameDir>> THEN d
          ELSE NoFile] :
        a \in {"h1", NoFile}, b \in Contents \cup {NoFile},
        t \in {"h1", NoFile}, u \in {"h1", NoFile}, d \in {Directory, NoFile} }

InitIndex ==
    /\ roots = BothRoots
    /\ store \in IndexStores
    /\ notes = [d \in {"n1"} |-> <<Embed(NameB)>>]
    /\ pc = "idle"
    /\ walked = {}
    /\ hash_map = <<>>
    /\ duplicate_groups = <<>>
    /\ replacement_map = <<>>
    /\ visited = {}
    /\ updated_files = {}
    /\ rm = NoRemoval
    /\ result = NewResult
    /\ deleted = {}
    /\ failed_notes = {}
    /\ hash_failed = {}
    /\ rm_failed = {}
    /\ faults = 0
    /\ snap = [store |-> store, notes |-> notes]
    /\ prev = NoRun
    /\ IngestIdle

SpecIndex == InitIndex /\ [][Next]_vars

(***************************************************************************)
(* ContentTransformer._process_images.  A document is the list of its img  *)
(* elements; an element is a record of the kind of its src, the text that  *)
(* decides its extension and the bytes it stands for.                      *)
(***************************************************************************)
Img(kind, mtype, data) ==
    [kind |-> kind, mtype |-> mtype, data |-> data, name |-> <<>>]

\* data URIs: the text that follows "data:image/"
SubPng == <<"p", "n", "g", ";">>
SubSvg == <<"s", "v", "g", "+", "x", "m", "l", ";">>
SubNone == <<";">>

\* Content-Type headers of a response; the empty one is a missing header
CtJpeg == <<"i", "m", "a", "g", "e", "/", "j", "p", "e", "g">>
CtPng == <<"i", "m", "a", "g", "e", "/", "p", "n", "g">>
CtGif == <<"i", "m", "a", "g", "e", "/", "g", "i", "f">>
CtWebp == <<"i", "m", "a", "g", "e", "/", "w", "e", "b", "p">>
CtAbsent == <<>>

\* data "none": the payload cannot be decoded; "empty": it decodes to b""
ImgPool ==
    { Img("data", SubPng, "d1"), Img("data", SubSvg, "d1"),
      Img("data", SubNone, "d2"), Img("data", SubPng, "none"),
      Img("data", SubPng, "empty"),
      Img("http", CtJpeg, "d2"), Img("http", CtPng, "d1"),
      Img("http", CtGif, "d2"), Img("http", CtWebp, "d2"),
      Img("http", CtAbsent, "d1"),
      Img("file", <<>>, "none"), Img("empty", <<>>, "none") }

\* the characters of the class [\w+] that occur in the model
WordChars ==
    { "a", "b", "c", "d", "e", "f", "g", "h", "i", "j", "k", "l", "m", "n",
      "o", "p", "q", "r", "s", "t", "u", "v", "w", "x", "y", "z", "_", "+" }

WordPrefixLen(s) ==
    LET ok == {n \in 0..Len(s) : \A i \in 1..n : s[i] \in WordChars}
    IN  CHOOSE n \in ok : \A k \in ok : k <= n

_decode_base64(img) == img.data

_image_extension(mtype) ==
    LET n == WordPrefixLen(mtype)
    IN  IF n = 0 THEN <<".", "p", "n", "g">>
        ELSE <<".">> \o SubSeq(mtype, 1, n)

\* sub in s
Contains(s, sub) ==
    \E i \in 1..(Len(s) - Len(sub) + 1) : SubSeq(s, i, i + Len(sub) - 1) = sub

_guess_extension(content_type) ==
    IF content_type = <<>> THEN <<".", "p", "n", "g">>
    ELSE IF Contains(content_type, <<"j", "p", "e", "g">>)
         THEN <<".", "j", "p", "g">>
    ELSE IF Contains(content_type, <<"p", "n", "g">>)
         THEN <<".", "p", "n", "g">>
    ELSE IF Contains(content_type, <<"g", "i", "f">>)
         THEN <<".", "g", "i", "f">>
    ELSE <<".", "i", "m", "g">>

\* hashlib.md5(data).hexdigest()[:12], two digits of it
Md5Prefix(data) ==
    CASE data = "d1" -> <<"a", "f">>
      [] data = "d2" -> <<"b", "e">>

BaseName == <<"n">>

_hashed_filename(base, data, ext) == base \o <<"_">> \o Md5Prefix(data) \o ext

_obsidian_img(filename) ==
    [kind |-> "obsidian", mtype |-> <<>>, data |-> "none", name |-> filename]

\* lines 133-136
BeginImages ==
    /\ ipc = "ready"
    /\ ipc' = "loop"
    /\ ipos' = 1
    /\ image_map' = <<>>
    /\ extracted' = 0
    /\ external' = 0
    /\ UNCHANGED <<imgs, html, download_external, attachments, warnings,
                   write_log, failed_refs>>
    /\ UNCHANGED dedupVars

\* write_bytes, image_map[src] = name, img.replace_with
StoreImage(img, name, data) ==
    /\ attachments' = (name :> data) @@ attachments
    /\ write_log' = Append(write_log,
                           [pos |-> ipos, name |-> name,
                            existed |-> name \in DOMAIN attachments])
    /\ image_map' = DictSet(image_map, img, name)
    /\ html' = [html EXCEPT ![ipos] = _obsidian_img(name)]

\* the loop with a decoding failure leaving it
ProcessImageBreaks ==
    /\ ipc = "loop"
    /\ ipos <= Len(imgs)
    /\ LET img == imgs[ipos]
       IN  IF img.kind = "empty"
           THEN /\ ipos' = ipos + 1
                /\ UNCHANGED <<ipc, html, attachments, image_map, extracted,
                               external, warnings, write_log, failed_refs>>
           ELSE IF img.kind = "data"
           THEN LET data == _decode_base64(img)
                IN  IF data \in {"none", "empty"}
                    THEN /\ warnings' = Append(warnings, <<"decode">>)
                         /\ ipos' = Len(imgs) + 1
                         /\ UNCHANGED <<ipc, html, attachments, image_map,
                                        extracted, external, write_log,
                                        failed_refs>>
                    ELSE LET name == _hashed_filename(
                                         BaseName, data,
                                         _image_extension(img.mtype))
                         IN  \/ /\ StoreImage(img, name, data)
                                /\ extracted' = extracted + 1
                                /\ ipos' = ipos + 1
                                /\ UNCHANGED <<ipc, external, warnings,
                                               failed_refs>>
                             \/ /\ ipc' = "aborted"
                                /\ failed_refs' =
                                       failed_refs \cup {<<ipos, "write">>}
                                /\ UNCHANGED <<ipos, html, attachments,
                                               image_map, extracted, external,
                                               warnings, write_log>>
           ELSE IF img.kind = "http" /\ download_external
           THEN LET name == _hashed_filename(
                                BaseName, img.data,
                                _guess_extension(img.mtype))
                IN  \/ /\ StoreImage(img, name, img.data)
                       /\ external' = external + 1
                       /\ ipos' = ipos + 1
                       /\ UNCHANGED <<ipc, extracted, warnings, failed_refs>>
                    \/ \E why \in {"fetch", "write"} :
                          /\ warnings' = Append(warnings, <<"download", img>>)
                          /\ external' = external + 1
                          /\ failed_refs' = failed_refs \cup {<<ipos, why>>}
                          /\ ipos' = ipos + 1
                          /\ UNCHANGED <<ipc, html, attachments, image_map,
                                         extracted, write_log>>
           ELSE /\ ipos' = ipos + 1
                /\ UNCHANGED <<ipc, html, attachments, image_map, extracted,
                               external, warnings, write_log, failed_refs>>
    /\ UNCHANGED <<imgs, download_external>>
    /\ UNCHANGED dedupVars

\* One iteration of the loop of _process_images, lines 138-172.  An
\* exception of write_bytes at line 152 is not caught in _process_images and
\* ends the conversion of the document; one at line 165 is caught at line 170.
ProcessImage ==
    /\ ipc = "loop"
    /\ ipos <= Len(imgs)
    /\ LET img == imgs[ipos]
       IN  IF img.kind = "empty"
           THEN /\ ipos' = ipos + 1
                /\ UNCHANGED <<ipc, html, attachments, image_map, extracted,
                               external, warnings, write_log, failed_refs>>
           ELSE IF img.kind = "data"
           THEN LET data == _decode_base64(img)
                IN  IF data \in {"none", "empty"}
                    THEN /\ warnings' = Append(warnings, <<"decode">>)
                         /\ ipos' = ipos + 1
                         /\ UNCHANGED <<ipc, html, attachments, image_map,
                                        extracted, external, write_log,
                                        failed_refs>>
                    ELSE LET name == _hashed_filename(
                                         BaseName, data,
                                         _image_extension(img.mtype))
                         IN  \/ /\ StoreImage(img, name, data)
                                /\ extracted' = extracted + 1
                                /\ ipos' = ipos + 1
                                /\ UNCHANGED <<ipc, external, warnings,
                                               failed_refs>>
                             \/ /\ ipc' = "aborted"
                                /\ failed_refs' =
                                       failed_refs \cup {<<ipos, "write">>}
                                /\ UNCHANGED <<ipos, html, attachments,
                                               image_map, extracted, external,
                                               warnings, write_log>>
           ELSE IF img.kind = "http" /\ download_external
           THEN LET name == _hashed_filename(
                                BaseName, img.data,
                                _guess_extension(img.mtype))
                IN  \/ /\ StoreImage(img, name, img.data)
                       /\ external' = external + 1
                       /\ ipos' = ipos + 1
                       /\ UNCHANGED <<ipc, extracted, warnings, failed_refs>>
                    \/ \E why \in {"fetch", "write"} :
                          /\ warnings' = Append(warnings, <<"download", img>>)
                          /\ external' = external + 1
                          /\ failed_refs' = failed_refs \cup {<<ipos, why>>}
                          /\ ipos' = ipos + 1
                          /\ UNCHANGED <<ipc, html, attachments, image_map,
                                         extracted, write_log>>
           ELSE /\ ipos' = ipos + 1
                /\ UNCHANGED <<ipc, html, attachments, image_map, extracted,
                               external, warnings, write_log, failed_refs>>
    /\ UNCHANGED <<imgs, download_external>>
    /\ UNCHANGED dedupVars

\* line 174
ReturnImages ==
    /\ ipc = "loop"
    /\ ipos > Len(imgs)
    /\ ipc' = "returned"
    /\ UNCHANGED <<imgs, html, ipos, download_external, attachments,
                   image_map, extracted, external, warnings, write_log,
                   failed_refs>>
    /\ UNCHANGED dedupVars

NextIngest ==
    \/ BeginImages
    \/ ProcessImage
    \/ ReturnImages

\* the name under which the bytes d1 of a PNG are stored
StoredBefore ==
    _hashed_filename(BaseName, "d1", <<".", "p", "n", "g">>) :> "d1"

InitIngest ==
    /\ roots = BothRoots
    /\ store = EmptyStore
    /\ notes = EmptyCorpus
    /\ pc = "off"
    /\ walked = {}
    /\ hash_map = <<>>
    /\ duplicate_groups = <<>>
    /\ replacement_map = <<>>
    /\ visited = {}
    /\ updated_files = {}
    /\ rm = NoRemoval
    /\ result = NewResult
    /\ deleted = {}
    /\ failed_notes = {}
    /\ hash_failed = {}
    /\ rm_failed = {}
    /\ faults = 0
    /\ snap = [store |-> store, notes |-> notes]
    /\ prev = NoRun
    /\ ipc = "ready"
    /\ imgs \in SeqsUpTo(ImgPool, MaxImgs)
    /\ html = imgs
    /\ ipos = 0
    /\ download_external \in BOOLEAN
    /\ attachments \in {<<>>, StoredBefore}
    /\ image_map = <<>>
    /\ extracted = 0
    /\ external = 0
    /\ warnings = <<>>
    /\ write_log = <<>>
    /\ failed_refs = {}

SpecIngest == InitIngest /\ [][NextIngest]_vars

(***************************************************************************)
(* Vocabulary of the properties.                                           *)
(***************************************************************************)
Keys == DictKeys(replacement_map)

GroupIndexes == 1..Len(duplicate_groups)

\* the members of the duplicate groups other than sorted_group[0]
NonCanonicalFiles ==
    UNION { { SortedGroup(duplicate_groups[i])[j] :
                j \in 2..Len(duplicate_groups[i]) } : i \in GroupIndexes }

\* the token is a reference, in one of the two syntaxes the rewriter knows
IsReference(tok) == tok.kind \in {"embed", "image"}

References(content, name) ==
    \E i \in 1..Len(content) : IsReference(content[i]) /\ content[i].name = name

\* notes the rewriter processed without an exception
ProcessedNotes == visited \ failed_notes

PermsOf(group) ==
    { [i \in 1..Len(group) |-> group[f[i]]] :
        f \in { g \in [1..Len(group) -> 1..Len(group)] :
                  \A i, j \in 1..Len(group) : i # j => g[i] # g[j] } }

DictPairs(m) == Range(m)

GroupNames(group) == { PathName(group[i]) : i \in 1..Len(group) }

(***************************************************************************)
(* C1  Rewrite-before-delete: when the rewrite of a note that references a *)
(* non-canonical file F fails, F is not deleted and still exists when the  *)
(* run returns, and the report lists an error for it.                      *)
(* The code gates no deletion on the rewrite: this statement is violated.  *)
(***************************************************************************)
C1_RewriteBeforeDelete ==
    \A d \in failed_notes : \A f \in NonCanonicalFiles :
        References(notes[d], PathName(f)) =>
            /\ f \notin deleted
            /\ pc = "done" => (store[f] # NoFile /\ result.errors # <<>>)

(***************************************************************************)
(* C2  No dangling references: after a run, no reference (embed or linked  *)
(* image) in a note recorded as updated names a file the run deleted.      *)
(* Violated: a name stored in two directories maps to itself and every     *)
(* copy of it is deleted.                                                  *)
(***************************************************************************)
C2_NoDanglingReferences ==
    pc = "done" =>
        \A d \in updated_files : \A f \in deleted :
            ~References(notes[d], PathName(f))

(***************************************************************************)
(* C3  Merge property: of every set of byte-identical files exactly one    *)
(* survives a consolidation run.  Stated for the runs in which no hashing  *)
(* and no deletion failed, which are cases of the claim.                   *)
(* Violated: two files of one name in two directories are both deleted.    *)
(***************************************************************************)
C3_MergeProperty ==
    (pc = "done" /\ hash_failed = {} /\ rm_failed = {}) =>
        \A c \in Contents :
            (\E p \in Paths : snap.store[p] = c) =>
                Cardinality({p \in Paths : store[p] = c}) = 1

(***************************************************************************)
(* C4  Canonical files are never deleted: the member sorted first in each  *)
(* duplicate group still exists, whatever the directories of the members.  *)
(* Violated: _remove_duplicates selects by name, so a canonical file whose *)
(* name is a key of the map is deleted too.                                *)
(***************************************************************************)
C4_CanonicalNeverDeleted ==
    \A i \in GroupIndexes :
        /\ Canonical(duplicate_groups[i]) \notin deleted
        /\ store[Canonical(duplicate_groups[i])] # NoFile

(***************************************************************************)
(* C5  Idempotence, as claimed: a second run on what a completed run left  *)
(* changes no note, deletes no file and reports duplicates_removed = 0 and *)
(* files_updated = 0.                                                      *)
(* Violated when the first run completed with a failed hash or unlink.     *)
(***************************************************************************)
SecondRunIsNoOp ==
    /\ store = snap.store
    /\ notes = snap.notes
    /\ pc = "done" => /\ result.duplicates_removed = 0
                      /\ result.files_updated = 0

C5_Idempotence == prev # NoRun => SecondRunIsNoOp

(***************************************************************************)
(* C5 amended: a second run on what the first run left, when the first run *)
(* hashed every file and deleted every file it set out to delete, changes  *)
(* no note, deletes no file and reports duplicates_removed = 0 and         *)
(* files_updated = 0.                                                      *)
(***************************************************************************)
C5_IdempotenceAfterCleanRun ==
    (prev # NoRun /\ prev[1].clean) => SecondRunIsNoOp

C5_Witness ==
    /\ prev # NoRun
    /\ prev[1].clean
    /\ prev[1].result.duplicates_removed > 0
    /\ prev[1].result.files_updated > 0
    /\ pc = "done"
    /\ result.total_files > 0

(***************************************************************************)
(* C6  Determinism of canonical selection: for the members of a duplicate  *)
(* group, every discovery order yields the same canonical name, the        *)
(* shortest and then lexicographically smallest name, and the same         *)
(* replacement mapping.                                                    *)
(***************************************************************************)
C6_CanonicalSelectionDeterministic ==
    (pc = "rewrite" /\ visited = {}) =>
        \A i \in GroupIndexes :
            LET group == duplicate_groups[i]
                names == GroupNames(group)
                chosen == PathName(Canonical(group))
            IN  /\ NameA \in names => chosen = NameA
                /\ (NameA \notin names /\ NameB \in names) => chosen = NameB
                /\ \A q \in PermsOf(group) :
                      /\ PathName(Canonical(q)) = chosen
                      /\ DictPairs(_build_replacement_map(<<q>>))
                            = DictPairs(_build_replacement_map(<<group>>))

\* a group of three whose first discovered member is the longest name
C6_Witness ==
    /\ pc = "rewrite"
    /\ \E i \in GroupIndexes :
          /\ Len(duplicate_groups[i]) = 3
          /\ PathName(duplicate_groups[i][1]) = NameAB
          /\ PathName(Canonical(duplicate_groups[i])) = NameA

(***************************************************************************)
(* C7  The replacement mapping has no chains or cycles: no value of the    *)
(* mapping is itself a key.                                                *)
(* Violated: b.png stored in two directories with one content gives the    *)
(* entry b.png -> b.png.                                                   *)
(***************************************************************************)
C7_NoChains ==
    \A i \in 1..Len(replacement_map) : replacement_map[i][2] \notin Keys

(***************************************************************************)
(* C8  Embed-token rewriting: in a note processed without error no embed   *)
(* of a key of the mapping remains.                                        *)
(* Violated: with b.png -> b.png and ab.png -> b.png in the mapping the    *)
(* embed of ab.png becomes an embed of the key b.png.                      *)
(***************************************************************************)
C8_EmbedTokensRewritten ==
    \A d \in ProcessedNotes : \A i \in 1..Len(notes[d]) :
        notes[d][i].kind = "embed" => notes[d][i].name \notin Keys

(***************************************************************************)
(* C9  Linked-image rewriting is literal: in a note processed without      *)
(* error a linked image whose target is a key is rewritten to the key's    *)
(* value with the same alt text, and a linked image whose target is not    *)
(* exactly a key is left unchanged.                                        *)
(* Violated: the name is used as a regular expression, so the target       *)
(* b_png is matched by the key b.png and rewritten.                        *)
(***************************************************************************)
C9_LinkedImageLiteral ==
    \A d \in ProcessedNotes : \A i \in 1..Len(notes[d]) :
        LET before == snap.notes[d][i]
        IN  before.kind = "image" =>
                IF before.name \in Keys
                THEN notes[d][i] =
                        Image(before.alt, DictGet(replacement_map, before.name))
                ELSE notes[d][i] = before

(***************************************************************************)
(* C10  Scenario A.  The store holds exactly two byte-identical files with *)
(* distinct names of equal length; the only note holds one reference to    *)
(* the duplicate and a linked image of the canonical file; no I/O fails.   *)
(* Then the duplicate is deleted, both references name the canonical file  *)
(* and the report is found 1, removed 1, bytes_saved = size, updated 1.    *)
(***************************************************************************)
ScenarioStore(s, canon, dup) ==
    /\ canon # dup
    /\ s[canon] # NoFile
    /\ s[canon] = s[dup]
    /\ \A p \in Paths \ {canon, dup} : s[p] = NoFile
    /\ Len(PathName(canon)) = Len(PathName(dup))
    /\ NameLess(PathName(canon), PathName(dup))

ScenarioRun(canon, dup, dupToken) ==
    /\ pc = "done"
    /\ prev = NoRun
    /\ faults = 0
    /\ ScenarioStore(snap.store, canon, dup)
    /\ DOMAIN snap.notes = {"n1"}
    /\ snap.notes["n1"] = <<dupToken, Image("alt", PathName(canon))>>

ScenarioResult(canon, dup, canonToken) ==
    /\ store[dup] = NoFile
    /\ store[canon] # NoFile
    /\ notes["n1"] = <<canonToken, Image("alt", PathName(canon))>>
    /\ result.duplicates_found = 1
    /\ result.duplicates_removed = 1
    /\ result.bytes_saved = SizeOf(snap.store[dup])
    /\ result.files_updated = 1

C11_FailuresAccumulated ==
    pc = "done" =>
        Len(result.errors) >=
            Cardinality(failed_notes) + Cardinality(hash_failed)
                + Cardinality(rm_failed)

(***************************************************************************)
(* C14  Rewriter failure isolation: a note whose read or write failed is   *)
(* not in the updated set and not counted in files_updated, and every      *)
(* other note of the corpus is still processed: it holds its rewritten     *)
(* text and is recorded exactly when that text differs from the original.  *)
(***************************************************************************)
RewriterReturned == pc \in {"remove", "done"} /\ duplicate_groups # <<>>

C14_RewriterFailureIsolation ==
    /\ updated_files \cap failed_notes = {}
    /\ RewriterReturned =>
          /\ visited = DOMAIN notes
          /\ result.files_updated = Cardinality(updated_files)
          /\ \A d \in DOMAIN notes \ failed_notes :
                /\ notes[d] = RewriteContent(snap.notes[d], replacement_map)
                /\ d \in updated_files <=> notes[d] # snap.notes[d]

C14_Witness ==
    /\ pc = "done"
    /\ \E d, e \in DOMAIN notes :
          /\ d # e
          /\ failed_notes = {d}
          /\ updated_files = {e}
          /\ result.files_updated = 1

(***************************************************************************)
(* C15  Garbage-collection accounting: duplicates_removed is the number of *)
(* files deleted and bytes_saved the sum of their sizes; a deletion that   *)
(* failed counts in neither, its file is kept, and the files after it in   *)
(* files_to_remove are still deleted.                                      *)
(***************************************************************************)
RECURSIVE SumSizes(_)
SumSizes(files) ==
    IF files = {} THEN 0
    ELSE LET f == CHOOSE x \in files : TRUE
         IN  SizeOf(snap.store[f]) + SumSizes(files \ {f})

RemovalList == FilesToRemove(duplicate_groups, replacement_map)

C15_RemovalAccounting ==
    /\ pc = "remove" => rm.files_removed = Cardinality(deleted)
    /\ (pc = "done" /\ duplicate_groups # <<>>) =>
          /\ result.duplicates_removed = Cardinality(deleted)
          /\ result.bytes_saved = SumSizes(deleted)
          /\ deleted \cap rm_failed = {}
          /\ deleted \cup rm_failed = Range(RemovalList)
          /\ \A p \in Paths :
                store[p] = IF p \in deleted THEN NoFile ELSE snap.store[p]

\* a failed deletion followed, later in the list, by a successful one
C15_Witness ==
    /\ pc = "done"
    /\ \E i, j \in 1..Len(RemovalList) :
          /\ i < j
          /\ RemovalList[i] \in rm_failed
          /\ RemovalList[j] \in deleted
    /\ result.duplicates_removed = Cardinality(deleted)
    /\ result.duplicates_removed < result.duplicates_found

(***************************************************************************)
(* C19  Naming collisions are reported and not resolved: when two files of *)
(* different content share a name in two directories, the report holds an  *)
(* error, no file of a group with that name is deleted and no reference to *)
(* that name is rewritten.                                                 *)
(* Violated: nothing in the run looks for collisions.                      *)
(***************************************************************************)
CollidingNames ==
    { PathName(p) : p \in { x \in Paths :
        \E y \in Paths :
            /\ x # y
            /\ PathName(x) = PathName(y)
            /\ snap.store[x] # NoFile
            /\ snap.store[y] # NoFile
            /\ snap.store[x] # snap.store[y] } }

OffendingGroups ==
    { i \in GroupIndexes : GroupNames(duplicate_groups[i]) \cap CollidingNames # {} }

C19_CollisionsReported ==
    (pc = "done" /\ OffendingGroups # {}) =>
        /\ result.errors # <<>>
        /\ \A i \in OffendingGroups : Range(duplicate_groups[i]) \cap deleted = {}
        /\ \A d \in DOMAIN notes : \A k \in 1..Len(notes[d]) :
              snap.notes[d][k].name \in CollidingNames =>
                  notes[d][k] = snap.notes[d][k]

(***************************************************************************)
(* C12  Missing root directories are fatal before any mutation: when       *)
(* attachments_dir or notes_dir does not exist, the run rewrites no note,  *)
(* deletes no file and reports an error.                                   *)
(* Violated: no existence check is made; a missing notes_dir is walked as  *)
(* an empty one, the duplicates are deleted and errors stays empty.        *)
(***************************************************************************)
C12_MissingRootsFatal ==
    (~roots.store \/ ~roots.notes) =>
        /\ deleted = {}
        /\ store = snap.store
        /\ notes = snap.notes
        /\ pc = "done" => result.errors # <<>>

(***************************************************************************)
(* C13  Atomic rewrite: after a crash while a changed note is written      *)
(* back, every note is its complete original text or its complete          *)
(* rewritten text.                                                         *)
(* Violated: write_text truncates the note and writes in place.            *)
(***************************************************************************)
C13_AtomicRewrite ==
    pc = "crashed" =>
        \A d \in DOMAIN notes :
            \/ notes[d] = snap.notes[d]
            \/ notes[d] = RewriteContent(snap.notes[d], replacement_map)

(***************************************************************************)
(* C18  Indexer isolation and filtering: the index holds exactly the       *)
(* regular files yielded so far whose extension is an image extension, in  *)
(* any case of letters, and whose hashing did not fail, each once and      *)
(* under its content hash; a failed file is in no group and not counted in *)
(* total_files; the walk reaches every file; a file is appended at the end *)
(* of its group, so the members of a group are in walk order.              *)
(***************************************************************************)
IndexedFiles == UNION { Range(hash_map[i].files) : i \in 1..Len(hash_map) }

\* the names of the model that end in .png, whatever the case
ImageNames == {NameA, NameB, NameAB, NameUpper, NameDir}

Indexable(p) ==
    /\ store[p] \in Contents
    /\ PathName(p) \in ImageNames

IndexIsExact ==
    /\ IndexedFiles = {p \in walked : Indexable(p) /\ p \notin hash_failed}
    /\ SumLen([i \in 1..Len(hash_map) |-> hash_map[i].files], Len(hash_map))
          = Cardinality(IndexedFiles)
    /\ \A i, j \in 1..Len(hash_map) :
          i # j => hash_map[i].hash # hash_map[j].hash
    /\ \A i \in 1..Len(hash_map) : \A k \in 1..Len(hash_map[i].files) :
          store[hash_map[i].files[k]] = hash_map[i].hash

WalkIsComplete ==
    /\ walked = {p \in Paths : snap.store[p] # NoFile}
    /\ result.total_files = Cardinality(IndexedFiles)
    /\ \A i \in GroupIndexes :
          Range(duplicate_groups[i]) \subseteq IndexedFiles \ hash_failed

IsPrefix(s, t) == Len(s) <= Len(t) /\ SubSeq(t, 1, Len(s)) = s

\* a step of the walk keeps every group in place and appends at its end
WalkAppends ==
    (pc = "hash" /\ pc' = "hash") =>
        /\ Len(hash_map) <= Len(hash_map')
        /\ \A i \in 1..Len(hash_map) :
              /\ hash_map'[i].hash = hash_map[i].hash
              /\ IsPrefix(hash_map[i].files, hash_map'[i].files)
        /\ IndexedFiles' \ IndexedFiles \subseteq walked' \ walked

C18_IndexerIsolation ==
    /\ [](pc = "hash" => IndexIsExact)
    /\ [](pc \in {"rewrite", "remove", "done"} => WalkIsComplete)
    /\ [][WalkAppends]_vars

\* a run in which one file failed, b.PNG was indexed and b.txt and the
\* directory were passed over
C18_Witness ==
    /\ pc \in {"rewrite", "done"}
    /\ Cardinality(hash_failed) = 1
    /\ <<"att", NameUpper>> \in IndexedFiles
    /\ snap.store[<<"att", NameTxt>>] = "h1"
    /\ snap.store[<<"att", NameDir>>] = Directory
    /\ result.total_files = 2

(***************************************************************************)
(* C16  No redundant write: _process_images writes a file only when no     *)
(* file of that name exists in the attachment directory.                   *)
(***************************************************************************)
C16_NoRedundantWrite ==
    \A k \in 1..Len(write_log) : ~write_log[k].existed

(***************************************************************************)
(* C17  Per-reference failure isolation: a reference that cannot be        *)
(* decoded or fetched gets a warning and no file and stays as it was, a    *)
(* fetch failure is counted in external, every later reference is          *)
(* processed, and only a failed write of an inline image ends the document.*)
(***************************************************************************)
DecodeFails(img) == img.kind = "data" /\ img.data \in {"none", "empty"}

Handled == IF ipc \in {"loop", "returned", "aborted"} THEN 1..(ipos - 1) ELSE {}

WrittenAt(i) == \E k \in 1..Len(write_log) : write_log[k].pos = i

FetchTried(i) == imgs[i].kind = "http" /\ download_external

RefFailed(i) ==
    \/ DecodeFails(imgs[i])
    \/ \E why \in {"fetch", "write"} : <<i, why>> \in failed_refs

C17_ReferenceFailureIsolation ==
    /\ \A i \in Handled :
          /\ DecodeFails(imgs[i]) =>
                \E k \in 1..Len(warnings) : warnings[k] = <<"decode">>
          /\ <<i, "fetch">> \in failed_refs =>
                /\ FetchTried(i)
                /\ \E k \in 1..Len(warnings) :
                      warnings[k] = <<"download", imgs[i]>>
          /\ RefFailed(i) => ~WrittenAt(i) /\ html[i] = imgs[i]
          /\ ((imgs[i].kind = "data" \/ FetchTried(i)) /\ ~RefFailed(i)) =>
                /\ WrittenAt(i)
                /\ html[i].kind = "obsidian"
                /\ html[i].name \in DOMAIN attachments
    /\ ipc \in {"loop", "returned", "aborted"} =>
          /\ external = Cardinality({i \in Handled : FetchTried(i)})
          /\ extracted = Cardinality({i \in Handled :
                                        /\ imgs[i].kind = "data"
                                        /\ ~DecodeFails(imgs[i])})
          /\ Len(warnings) = Cardinality({i \in Handled : RefFailed(i)})
    /\ ipc = "returned" => ipos = Len(imgs) + 1
    /\ ipc = "aborted" =>
          /\ imgs[ipos].kind = "data"
          /\ ~DecodeFails(imgs[ipos])
          /\ <<ipos, "write">> \in failed_refs

\* a document returned with a failed first reference and a stored second one
C17_Witness ==
    /\ ipc = "returned"
    /\ Len(imgs) = 2
    /\ \/ DecodeFails(imgs[1])
       \/ <<1, "fetch">> \in failed_refs
    /\ html[1] = imgs[1]
    /\ html[2].kind = "obsidian"
    /\ Len(warnings) = 1

(***************************************************************************)
(* C20  Every file _process_images writes has an extension that            *)
(* _hash_all_files accepts.                                                *)
(***************************************************************************)
C20_IngestedVisibleToIndexer ==
    \A k \in 1..Len(write_log) :
        Lower(Suffix(write_log[k].name)) \in IMAGE_EXTENSIONS

(***************************************************************************)
(* C21  Phase ordering: a run goes hash -> build mapping -> rewrite ->     *)
(* delete.  The index, the duplicate groups and the replacement mapping    *)
(* are complete when the first note is rewritten and do not change from    *)
(* then on; a note is written only in the rewrite phase, before any        *)
(* deletion; a file is deleted only after every note of the corpus has     *)
(* been visited; a deleted file shared its hash group, and its bytes at    *)
(* the start of the run, with another file.                                *)
(***************************************************************************)
PhaseOrder ==
    { <<"idle", "hash">>, <<"hash", "hash">>, <<"hash", "rewrite">>,
      <<"hash", "done">>, <<"rewrite", "rewrite">>, <<"rewrite", "remove">>,
      <<"rewrite", "crashed">>, <<"remove", "remove">>, <<"remove", "done">>,
      <<"done", "hash">> }

MappingIsComplete ==
    /\ walked = {p \in Paths : snap.store[p] # NoFile}
    /\ duplicate_groups = _find_duplicates(hash_map)
    /\ duplicate_groups # <<>>
    /\ replacement_map = _build_replacement_map(duplicate_groups)

InDuplicateGroup(f) ==
    /\ \E i \in GroupIndexes : f \in Range(duplicate_groups[i])
    /\ \E i \in 1..Len(hash_map) :
          /\ f \in Range(hash_map[i].files)
          /\ Len(hash_map[i].files) > 1
    /\ \E g \in Paths \ {f} : snap.store[g] = snap.store[f]

PhaseState ==
    /\ pc \in {"rewrite", "remove", "crashed"} => MappingIsComplete
    /\ pc \in {"idle", "hash"} => visited = {} /\ notes = snap.notes
    /\ pc \in {"idle", "hash", "rewrite", "crashed"} =>
          deleted = {} /\ store = snap.store
    /\ pc = "remove" => visited = DOMAIN notes
    /\ \A f \in deleted : InDuplicateGroup(f)

PhaseStep ==
    /\ <<pc, pc'>> \in PhaseOrder
    /\ pc \in {"rewrite", "remove"} =>
          /\ hash_map' = hash_map
          /\ duplicate_groups' = duplicate_groups
          /\ replacement_map' = replacement_map
    /\ (notes' # notes \/ visited' \notin {visited, {}}) =>
          /\ pc = "rewrite"
          /\ MappingIsComplete
          /\ store' = store
    /\ store' # store =>
          /\ pc = "remove"
          /\ visited = DOMAIN notes
          /\ notes' = notes

C21_PhaseOrdering ==
    /\ []PhaseState
    /\ [][PhaseStep]_vars

\* a run that rewrote a note and then deleted att/b.png, while the b.png of
\* the subdirectory, alone in its hash group, was left in the store
C21_Witness ==
    /\ pc = "done"
    /\ updated_files # {}
    /\ deleted = {<<"att", NameB>>}
    /\ snap.store[<<"att/sub", NameB>>] = "h2"
    /\ store[<<"att/sub", NameB>>] = "h2"

====
